---- MODULE Spec2Model ----
(***************************************************************************)
(* wimpy.model.Model: the active/dormant source lists with the analysis-   *)
(* target rule (activate_source / deactivate_source / get_source_i) and    *)
(* the batched PDF estimation of one source (compute_source_pdf).          *)
(***************************************************************************)
EXTENDS Integers, Sequences, FiniteSets, TLC

(***************************************************************************)
(* Bounds of the model.                                                    *)
(***************************************************************************)
NSources == 3           \* Source objects the Model is constructed with
MaxIndex == 2           \* numeric source ids range over -MaxIndex-1/2 .. MaxIndex+1/2
MaxBatchSize == 2       \* config['pdf_sampling_batch_size'] ranges over 1..MaxBatchSize
MaxEventsForPdf == 1    \* source.n_events_for_pdf ranges over 0..MaxEventsForPdf
MaxMultiplier == 2      \* config['pdf_sampling_multiplier'] ranges over 1..MaxMultiplier

(***************************************************************************)
(* The Source objects.  A Source is an identity 1..NSources with a name    *)
(* and an analysis_target flag, both fixed by the config.  Names are       *)
(* sequences of characters (numbers); every even source's name extends the *)
(* name of the odd source before it, so that the substring lookup of       *)
(* get_source_i has ambiguous cases.                                       *)
(*   1: <<1>>  target        2: <<1,0>>  not a target                      *)
(*   3: <<3>>  target        4: <<3,0>>  not a target      ...             *)
(***************************************************************************)
SourceIds == 1..NSources

SourceName(s) == IF s % 2 = 1 THEN <<s>> ELSE <<s - 1, 0>>

analysis_target(s) == s % 2 = 1

Range(f) == {f[i] : i \in DOMAIN f}

\* A source id handed to the public methods: a string, or a number (int or
\* float).  A number is kept as twice its value, so that k stands for k/2.
NameId(n) == [kind |-> "name", val |-> n]
NumId(twice) == [kind |-> "num", val |-> <<twice>>]

UnknownName == <<9>>    \* a name no source carries, not even as a substring
PartialName == <<0>>    \* a fragment that occurs in several sources' names

Ids ==
    {NameId(SourceName(s)) : s \in SourceIds}
        \cup {NameId(PartialName), NameId(UnknownName)}
        \cup {NumId(k) : k \in (-(2 * MaxIndex + 1))..(2 * MaxIndex + 1)}

\* Python's int(x) of a number x = twice/2: truncation toward zero.
PyInt(twice) == IF twice >= 0 THEN twice \div 2 ELSE -((-twice) \div 2)

\* Python's  a in b  for two strings.
IsSubstring(a, b) ==
    \E k \in 0..(Len(b) - Len(a)) : SubSeq(b, k + 1, k + Len(a)) = a

\* Python's lst[i] / del lst[i]: the 1-based position that the index i
\* denotes in lst, or 0 when the access raises IndexError.
PyIndex(lst, i) ==
    IF i >= 0 /\ i < Len(lst) THEN i + 1
    ELSE IF i < 0 /\ -i <= Len(lst) THEN Len(lst) + i + 1
    ELSE 0

\* lst with the element at 1-based position p removed (del lst[i]).
DelAt(lst, p) == SubSeq(lst, 1, p - 1) \o SubSeq(lst, p + 1, Len(lst))

(***************************************************************************)
(* Model.get_source_i: a number is returned as int(number) unchecked; a    *)
(* name is looked up as a substring of the names of the chosen list, first *)
(* match wins, ValueError when none matches.  The index is 0-based.        *)
(***************************************************************************)
get_source_i(srcs, dormant, source_id, from_dormant) ==
    IF source_id.kind = "num"
    THEN [exc |-> "none", i |-> PyInt(source_id.val[1])]
    ELSE LET lst == IF from_dormant THEN dormant ELSE srcs
             hits == {p \in 1..Len(lst) : IsSubstring(source_id.val, SourceName(lst[p]))}
         IN IF hits = {}
            THEN [exc |-> "ValueError: Unknown source", i |-> 0]
            ELSE [exc |-> "none",
                  i |-> (CHOOSE p \in hits : \A q \in hits : p <= q) - 1]

(***************************************************************************)
(* Model.deactivate_source.  The result is the two lists after the call    *)
(* and the exception it raised ("none" when it returned).                  *)
(***************************************************************************)
\* Variant: line 158 dropped, the target is deactivated without force.
deactivate_source_noforce(srcs, dormant, source_id, force) ==
    LET r == get_source_i(srcs, dormant, source_id, FALSE)
        p == PyIndex(srcs, r.i)
    IN IF r.exc # "none"
       THEN [sources |-> srcs, dormant_sources |-> dormant, exc |-> r.exc]
       ELSE IF p = 0
       THEN [sources |-> srcs, dormant_sources |-> dormant, exc |-> "IndexError"]
       ELSE [sources |-> DelAt(srcs, p),
             dormant_sources |-> Append(dormant, srcs[p]),
             exc |-> "none"]

deactivate_source(srcs, dormant, source_id, force) ==
    LET r == get_source_i(srcs, dormant, source_id, FALSE)
        p == PyIndex(srcs, r.i)
    IN IF r.exc # "none"
       THEN [sources |-> srcs, dormant_sources |-> dormant, exc |-> r.exc]
       ELSE IF p = 0
       THEN [sources |-> srcs, dormant_sources |-> dormant, exc |-> "IndexError"]
       ELSE IF ~force /\ analysis_target(srcs[p])
       THEN [sources |-> srcs, dormant_sources |-> dormant,
             exc |-> "ValueError: Cannot deactivate the analysis target"]
       ELSE [sources |-> DelAt(srcs, p),
             dormant_sources |-> Append(dormant, srcs[p]),
             exc |-> "none"]

(***************************************************************************)
(* Model.activate_source.  Line 141 reads the module-level name `model`,   *)
(* not self: model.py never binds that name, so the call raises NameError  *)
(* unless the running namespace binds `model` to this Model                *)
(* (model_bound).  Then: an exact name match among the active sources      *)
(* returns at once; the source is looked up among the dormant ones; a      *)
(* target is appended after deactivate_source(-1, force=True); a           *)
(* non-target evaluates  sources[:-1] + [s] + sources[-1], which raises    *)
(* IndexError on an empty list and TypeError (list + Source) otherwise,    *)
(* before anything is assigned; last,  del dormant_sources[i]  uses the    *)
(* index computed before the forced deactivation appended to that list.    *)
(***************************************************************************)
\* Variant: line 149 inserts the new target at the front instead of appending.
activate_source_front(bound, srcs, dormant, source_id) ==
    LET r == get_source_i(srcs, dormant, source_id, TRUE)
        p == PyIndex(dormant, r.i)
        d == deactivate_source(srcs, dormant, NumId(-2), TRUE)
    IN IF ~bound
       THEN [sources |-> srcs, dormant_sources |-> dormant, exc |-> "NameError"]
       ELSE IF source_id.kind = "name"
               /\ \E q \in 1..Len(srcs) : SourceName(srcs[q]) = source_id.val
       THEN [sources |-> srcs, dormant_sources |-> dormant, exc |-> "none"]
       ELSE IF r.exc # "none"
       THEN [sources |-> srcs, dormant_sources |-> dormant, exc |-> r.exc]
       ELSE IF p = 0
       THEN [sources |-> srcs, dormant_sources |-> dormant, exc |-> "IndexError"]
       ELSE IF analysis_target(dormant[p])
       THEN IF d.exc # "none"
            THEN [sources |-> srcs, dormant_sources |-> dormant, exc |-> d.exc]
            ELSE [sources |-> <<dormant[p]>> \o d.sources,
                  dormant_sources |->
                      DelAt(d.dormant_sources, PyIndex(d.dormant_sources, r.i)),
                  exc |-> "none"]
       ELSE IF Len(srcs) = 0
       THEN [sources |-> srcs, dormant_sources |-> dormant, exc |-> "IndexError"]
       ELSE [sources |-> srcs, dormant_sources |-> dormant, exc |-> "TypeError"]

activate_source(bound, srcs, dormant, source_id) ==
    LET r == get_source_i(srcs, dormant, source_id, TRUE)
        p == PyIndex(dormant, r.i)
        d == deactivate_source(srcs, dormant, NumId(-2), TRUE)
    IN IF ~bound
       THEN [sources |-> srcs, dormant_sources |-> dormant, exc |-> "NameError"]
       ELSE IF source_id.kind = "name"
               /\ \E q \in 1..Len(srcs) : SourceName(srcs[q]) = source_id.val
       THEN [sources |-> srcs, dormant_sources |-> dormant, exc |-> "none"]
       ELSE IF r.exc # "none"
       THEN [sources |-> srcs, dormant_sources |-> dormant, exc |-> r.exc]
       ELSE IF p = 0
       THEN [sources |-> srcs, dormant_sources |-> dormant, exc |-> "IndexError"]
       ELSE IF analysis_target(dormant[p])
       THEN IF d.exc # "none"
            THEN [sources |-> srcs, dormant_sources |-> dormant, exc |-> d.exc]
            ELSE [sources |-> Append(d.sources, dormant[p]),
                  dormant_sources |->
                      DelAt(d.dormant_sources, PyIndex(d.dormant_sources, r.i)),
                  exc |-> "none"]
       ELSE IF Len(srcs) = 0
       THEN [sources |-> srcs, dormant_sources |-> dormant, exc |-> "IndexError"]
       ELSE [sources |-> srcs, dormant_sources |-> dormant, exc |-> "TypeError"]

(***************************************************************************)
(* State.                                                                  *)
(***************************************************************************)
VARIABLES
    sources,            \* Model.sources: the active list
    dormant_sources,    \* Model.dormant_sources
    model_bound,        \* does the module-level name `model` refer to this Model
    config_ok,          \* which of I2, I3 the config's active list satisfied
    last,               \* the last public call, with the lists it started from
    trip,               \* an activate_source(x) ; deactivate_source(x) pair in progress
    pc,                 \* compute_source_pdf: "idle", "sampling", "done" or "failed"
    config,             \* batch size, multiplier, block flag; is there an ipp_client
    n_events_for_pdf,   \* source.n_events_for_pdf
    source,             \* the Source's pdf_histogram, pdf_errors, fraction_in_range
    prior,              \* those three fields as they were when the call started
    n_batches,          \* local of compute_source_pdf
    n_events,           \* local of compute_source_pdf
    mh,                 \* local Histdd: the counts accumulated so far
    batches_left,       \* batches not simulated yet (loop iterations / queued tasks)
    arrived,            \* parallel mode: results of finished tasks, in completion order
    returned            \* the sum of the count arrays the batches have produced so far

actVars == <<sources, dormant_sources, model_bound, config_ok, last, trip>>

pdfVars == <<pc, config, n_events_for_pdf, source, prior, n_batches, n_events, mh,
             batches_left, arrived, returned>>

vars == <<sources, dormant_sources, model_bound, config_ok, last, trip,
          pc, config, n_events_for_pdf, source, prior, n_batches, n_events, mh,
          batches_left, arrived, returned>>

\* All orderings of the members of a set, as sequences.
Perms(S) ==
    {f \in [1..Cardinality(S) -> S] : \A i, j \in DOMAIN f : i # j => f[i] # f[j]}

AtMostOneTarget(srcs) ==
    \A i, j \in 1..Len(srcs) :
        (analysis_target(srcs[i]) /\ analysis_target(srcs[j])) => i = j

TargetIsLast(srcs) ==
    \A i \in 1..Len(srcs) : analysis_target(srcs[i]) => i = Len(srcs)

NoCall ==
    [op |-> "none", id |-> NumId(0), force |-> FALSE, exc |-> "none",
     pre_sources |-> <<>>, pre_dormant |-> <<>>]

NoTrip ==
    [stage |-> 0, id |-> NumId(0), x |-> 0, active0 |-> {}, dormant0 |-> {}]

\* Model.__init__: one Source object per spec of config['sources'] and of
\* config['dormant_sources'], in the config's order; nothing checks the order
\* or the number of targets.
InitModel ==
    /\ \E A \in SUBSET SourceIds :
        /\ sources \in Perms(A)
        /\ dormant_sources \in Perms(SourceIds \ A)
    /\ model_bound \in BOOLEAN
    /\ config_ok = [I2 |-> AtMostOneTarget(sources), I3 |-> TargetIsLast(sources)]
    /\ last = NoCall
    /\ trip = NoTrip

\* The dormant source that activate_source(source_id) would pick, 0 if none.
DormantPick(srcs, dormant, source_id) ==
    LET r == get_source_i(srcs, dormant, source_id, TRUE)
        p == PyIndex(dormant, r.i)
    IN IF r.exc = "none" /\ p # 0 THEN dormant[p] ELSE 0

ActivateSource ==
    \E source_id \in Ids :
        LET res == activate_source(model_bound, sources, dormant_sources, source_id)
            x == DormantPick(sources, dormant_sources, source_id)
        IN /\ sources' = res.sources
           /\ dormant_sources' = res.dormant_sources
           /\ last' = [op |-> "activate", id |-> source_id, force |-> FALSE,
                       exc |-> res.exc,
                       pre_sources |-> sources, pre_dormant |-> dormant_sources]
           /\ trip' = IF source_id.kind = "name" /\ x # 0
                         /\ SourceName(x) = source_id.val
                      THEN [stage |-> 1, id |-> source_id, x |-> x,
                            active0 |-> Range(sources),
                            dormant0 |-> Range(dormant_sources)]
                      ELSE NoTrip
           /\ UNCHANGED <<model_bound, config_ok>>
           /\ UNCHANGED pdfVars

DeactivateSource ==
    \E source_id \in Ids, force \in BOOLEAN :
        LET res == deactivate_source(sources, dormant_sources, source_id, force)
        IN /\ sources' = res.sources
           /\ dormant_sources' = res.dormant_sources
           /\ last' = [op |-> "deactivate", id |-> source_id, force |-> force,
                       exc |-> res.exc,
                       pre_sources |-> sources, pre_dormant |-> dormant_sources]
           /\ trip' = IF trip.stage = 1 /\ trip.id = source_id
                      THEN [trip EXCEPT !.stage = 2]
                      ELSE NoTrip
           /\ UNCHANGED <<model_bound, config_ok>>
           /\ UNCHANGED pdfVars

(***************************************************************************)
(* compute_source_pdf.  The analysis space has two dimensions; `bins` are  *)
(* its bin edges, non-uniform in the first dimension.  A histogram is a    *)
(* matrix of counts, one row per bin of the first dimension.               *)
(***************************************************************************)
bins == << <<0, 1, 3>>, <<0, 2>> >>

\* np.diff of a sequence of bin edges.
Diff(edges) == [i \in 1..(Len(edges) - 1) |-> edges[i + 1] - edges[i]]

\* np.outer of two vectors.
Outer(u, v) == [i \in 1..Len(u) |-> [j \in 1..Len(v) |-> u[i] * v[j]]]

\* Histdd(bins=self.bins): all counts zero.
BlankHist == [i \in 1..(Len(bins[1]) - 1) |-> [j \in 1..(Len(bins[2]) - 1) |-> 0]]

AddHist(a, b) == [i \in DOMAIN a |-> [j \in DOMAIN a[i] |-> a[i][j] + b[i][j]]]

RECURSIVE SeqSum(_)
SeqSum(s) == IF s = <<>> THEN 0 ELSE s[1] + SeqSum(Tail(s))

\* Histdd.n: the number of entries in the histogram.
HistN(h) == SeqSum([i \in DOMAIN h |-> SeqSum(h[i])])

\* The histograms that one batch of batch_size simulated events can give:
\* every event falls in one cell of the analysis space or outside it.
BatchHists(batch_size) ==
    {h \in [1..(Len(bins[1]) - 1) -> [1..(Len(bins[2]) - 1) -> 0..batch_size]] :
        HistN(h) <= batch_size}

\* Lines 113-125.  A quotient is kept as <<numerator, denominator>>; a zero
\* denominator is numpy's nan (0/0).  An error is density / sqrt(root), and
\* nan where that is zero.
Max(a, b) == IF a >= b THEN a ELSE b

Normalize(h, nev) ==
    LET vol == Outer(Diff(bins[1]), Diff(bins[2]))
        n == HistN(h)
    IN [fraction_in_range |-> <<n, nev>>,
        pdf_histogram |->
            [i \in DOMAIN h |-> [j \in DOMAIN h[i] |-> <<h[i][j], n * vol[i][j]>>]],
        pdf_errors |->
            [i \in DOMAIN h |-> [j \in DOMAIN h[i] |->
                IF h[i][j] = 0 \/ n = 0
                THEN <<0, 0, 0>>
                ELSE <<h[i][j], n * vol[i][j], Max(h[i][j], 1)>>]]]

\* A Source whose PDF was never computed (pdf_histogram is None).
Unset == [fraction_in_range |-> <<>>, pdf_histogram |-> <<>>, pdf_errors |-> <<>>]

\* A Source that carries the PDF of an earlier computation.
Computed == Normalize([i \in DOMAIN BlankHist |-> [j \in DOMAIN BlankHist[i] |-> i]], 4)

\* Lines 76-78.
NBatchesCeil(requested, batch_size) == (requested + batch_size - 1) \div batch_size

NBatches(requested, batch_size) == (requested \div batch_size) + 1

InitPdf ==
    /\ pc = "idle"
    /\ config \in [pdf_sampling_batch_size : 1..MaxBatchSize,
                   pdf_sampling_multiplier : 1..MaxMultiplier,
                   block_during_simulation : BOOLEAN,
                   ipp_client : BOOLEAN]
    /\ n_events_for_pdf \in 0..MaxEventsForPdf
    /\ prior \in {Unset, Computed}
    /\ source = prior
    /\ n_batches = 0
    /\ n_events = 0
    /\ mh = BlankHist
    /\ batches_left = 0
    /\ arrived = <<>>
    /\ returned = BlankHist

\* Lines 76-79 and, with an ipp_client, 83-104: the batches are submitted.
Begin ==
    /\ pc = "idle"
    /\ pc' = "sampling"
    /\ n_batches' = NBatches(n_events_for_pdf * config.pdf_sampling_multiplier,
                             config.pdf_sampling_batch_size)
    /\ n_events' = n_batches' * config.pdf_sampling_batch_size
    /\ mh' = BlankHist
    /\ batches_left' = n_batches'
    /\ UNCHANGED <<config, n_events_for_pdf, source, prior, arrived, returned>>
    /\ UNCHANGED actVars

\* Lines 109-111: one iteration of the serial loop, simulate returns.
\* Variant: the loop normalizes into the Source after every batch.
SerialBatchInPlace ==
    /\ pc = "sampling" /\ ~config.ipp_client /\ batches_left > 0
    /\ \E h \in BatchHists(config.pdf_sampling_batch_size) :
        /\ mh' = AddHist(mh, h)
        /\ returned' = AddHist(returned, h)
        /\ source' = Normalize(mh', n_events)
    /\ batches_left' = batches_left - 1
    /\ UNCHANGED <<pc, config, n_events_for_pdf, prior, n_batches, n_events, arrived>>
    /\ UNCHANGED actVars

SerialBatch ==
    /\ pc = "sampling" /\ ~config.ipp_client /\ batches_left > 0
    /\ \E h \in BatchHists(config.pdf_sampling_batch_size) :
        /\ mh' = AddHist(mh, h)
        /\ returned' = AddHist(returned, h)
    /\ batches_left' = batches_left - 1
    /\ UNCHANGED <<pc, config, n_events_for_pdf, source, prior, n_batches, n_events,
                   arrived>>
    /\ UNCHANGED actVars

\* Line 111: source.simulate raises in an iteration of the serial loop.
SerialSimulateRaises ==
    /\ pc = "sampling" /\ ~config.ipp_client /\ batches_left > 0
    /\ pc' = "failed"
    /\ UNCHANGED <<config, n_events_for_pdf, source, prior, n_batches, n_events, mh,
                   batches_left, arrived, returned>>
    /\ UNCHANGED actVars

\* Lines 96-98 on an engine: do_sim runs one queued task and its count array
\* travels back.
WorkerRun ==
    /\ pc = "sampling" /\ config.ipp_client /\ batches_left > 0
    /\ \E h \in BatchHists(config.pdf_sampling_batch_size) :
        /\ arrived' = Append(arrived, [ok |-> TRUE, histogram |-> h])
        /\ returned' = AddHist(returned, h)
    /\ batches_left' = batches_left - 1
    /\ UNCHANGED <<pc, config, n_events_for_pdf, source, prior, n_batches, n_events, mh>>
    /\ UNCHANGED actVars

\* Line 98 on an engine: source.simulate raises, the task ends with the error.
WorkerSimulateRaises ==
    /\ pc = "sampling" /\ config.ipp_client /\ batches_left > 0
    /\ arrived' = Append(arrived, [ok |-> FALSE, histogram |-> BlankHist])
    /\ batches_left' = batches_left - 1
    /\ UNCHANGED <<pc, config, n_events_for_pdf, source, prior, n_batches, n_events, mh,
                   returned>>
    /\ UNCHANGED actVars

\* Lines 103-106.  The results come unordered, as the tasks finish; with
\* block_during_simulation the map call returns only when all have finished.
CanReceive ==
    /\ pc = "sampling" /\ config.ipp_client /\ arrived # <<>>
    /\ config.block_during_simulation => batches_left = 0

\* Line 106: one result is added to the local histogram.
Merge ==
    /\ CanReceive
    /\ Head(arrived).ok
    /\ mh' = AddHist(mh, Head(arrived).histogram)
    /\ arrived' = Tail(arrived)
    /\ UNCHANGED <<pc, config, n_events_for_pdf, source, prior, n_batches, n_events,
                   batches_left, returned>>
    /\ UNCHANGED actVars

\* Lines 103-105: the result that comes next is a task's error, which is
\* raised in the caller.
MergeRaises ==
    /\ CanReceive
    /\ ~Head(arrived).ok
    /\ pc' = "failed"
    /\ arrived' = Tail(arrived)
    /\ UNCHANGED <<config, n_events_for_pdf, source, prior, n_batches, n_events, mh,
                   batches_left, returned>>
    /\ UNCHANGED actVars

\* Lines 113-125, reached when the loop over the batches (serial) or over
\* the results (parallel) has ended.
\* Variant: no barrier, the stores happen while batches are still queued.
NormalizeEarly ==
    /\ pc = "sampling"
    /\ arrived = <<>>
    /\ batches_left < n_batches
    /\ source' = Normalize(mh, n_events)
    /\ pc' = "done"
    /\ UNCHANGED <<config, n_events_for_pdf, prior, n_batches, n_events, mh,
                   batches_left, arrived, returned>>
    /\ UNCHANGED actVars

NormalizeAndStore ==
    /\ pc = "sampling"
    /\ batches_left = 0
    /\ arrived = <<>>
    /\ source' = Normalize(mh, n_events)
    /\ pc' = "done"
    /\ UNCHANGED <<config, n_events_for_pdf, prior, n_batches, n_events, mh,
                   batches_left, arrived, returned>>
    /\ UNCHANGED actVars

(***************************************************************************)
(* The two specifications: the calls on the lists of one constructed       *)
(* Model, and one run of compute_source_pdf on one Source.                 *)
(***************************************************************************)
PdfIdle ==
    /\ pc = "idle"
    /\ config = [pdf_sampling_batch_size |-> 1, pdf_sampling_multiplier |-> 1,
                 block_during_simulation |-> FALSE, ipp_client |-> FALSE]
    /\ n_events_for_pdf = 0
    /\ prior = Unset
    /\ source = Unset
    /\ n_batches = 0
    /\ n_events = 0
    /\ mh = BlankHist
    /\ batches_left = 0
    /\ arrived = <<>>
    /\ returned = BlankHist

ModelAtRest ==
    /\ sources = <<>>
    /\ dormant_sources = <<>>
    /\ model_bound = FALSE
    /\ config_ok = [I2 |-> TRUE, I3 |-> TRUE]
    /\ last = NoCall
    /\ trip = NoTrip

Init == InitModel /\ PdfIdle

Next == ActivateSource \/ DeactivateSource

Spec == Init /\ [][Next]_vars

InitPdfRun == InitPdf /\ ModelAtRest

NextPdf ==
    \/ Begin
    \/ SerialBatch
    \/ SerialSimulateRaises
    \/ WorkerRun
    \/ WorkerSimulateRaises
    \/ Merge
    \/ MergeRaises
    \/ NormalizeAndStore

SpecPdf == InitPdfRun /\ [][NextPdf]_vars

(***************************************************************************)
(* Properties of the activation state machine.                             *)
(***************************************************************************)

\* The active source that the name source_id designates for deactivate_source:
\* the position of the first active source whose name contains it, 0 if none.
NamedActive(srcs, source_id) ==
    IF source_id.kind = "name"
       /\ \E p \in 1..Len(srcs) : IsSubstring(source_id.val, SourceName(srcs[p]))
    THEN CHOOSE p \in 1..Len(srcs) :
            /\ IsSubstring(source_id.val, SourceName(srcs[p]))
            /\ \A q \in 1..(p - 1) : ~IsSubstring(source_id.val, SourceName(srcs[q]))
    ELSE 0

\* The last call was activate_source, in a namespace where line 141 can run,
\* given the exact name of a source that was dormant.
ActivatedByName ==
    /\ last.op = "activate"
    /\ model_bound
    /\ last.id.kind = "name"
    /\ DormantPick(last.pre_sources, last.pre_dormant, last.id) # 0
    /\ SourceName(DormantPick(last.pre_sources, last.pre_dormant, last.id)) = last.id.val

LastPicked == DormantPick(last.pre_sources, last.pre_dormant, last.id)

\* C1 (I3): from a config whose active list satisfies I2 and I3, after any
\* sequence of activate_source / deactivate_source calls, failed ones
\* included, an analysis target in `sources` is the last element of `sources`.
C1_TargetIsLast == (config_ok.I2 /\ config_ok.I3) => TargetIsLast(sources)

\* C1 witness: a forced target replacement has just happened: the active
\* list ended with a target, and now ends with another target.
C1_Witness ==
    /\ config_ok.I2 /\ config_ok.I3
    /\ last.op = "activate" /\ last.exc = "none"
    /\ Len(last.pre_sources) > 0 /\ Len(sources) > 0
    /\ analysis_target(last.pre_sources[Len(last.pre_sources)])
    /\ analysis_target(sources[Len(sources)])
    /\ sources[Len(sources)] # last.pre_sources[Len(last.pre_sources)]

\* C2 (I2): from a model with at most one active analysis target, after any
\* sequence of activate_source / deactivate_source calls, at most one source
\* in `sources` has analysis_target = true.  The only premise is I2 of the
\* constructed model: a config may list its target anywhere in `sources`.
C2_AtMostOneTarget == config_ok.I2 => AtMostOneTarget(sources)

\* C3 (I1): after every call `sources` and `dormant_sources` are disjoint
\* and every constructed Source is in exactly one of them, exactly once.
C3_Partition ==
    /\ Range(sources) \cap Range(dormant_sources) = {}
    /\ Range(sources) \cup Range(dormant_sources) = SourceIds
    /\ Len(sources) + Len(dormant_sources) = NSources

\* C4: activate_source of a dormant analysis target succeeds, makes it the
\* last element of `sources`, moves the previously active target (if any) to
\* `dormant_sources`, and leaves every other active source active.
C4_TargetActivation ==
    (ActivatedByName /\ analysis_target(LastPicked)) =>
        /\ last.exc = "none"
        /\ Len(sources) > 0 /\ sources[Len(sources)] = LastPicked
        /\ \A s \in Range(last.pre_sources) :
              IF analysis_target(s)
              THEN s \in Range(dormant_sources)
              ELSE s \in Range(sources)

\* C5: activate_source of a dormant source that is not a target inserts it
\* as the second-to-last element of `sources`, the rest keeping their order,
\* and removes it from `dormant_sources`.
C5_NonTargetActivation ==
    (ActivatedByName /\ ~analysis_target(LastPicked) /\ Len(last.pre_sources) > 0) =>
        LET n == Len(last.pre_sources)
        IN /\ sources = SubSeq(last.pre_sources, 1, n - 1)
                            \o <<LastPicked>> \o <<last.pre_sources[n]>>
           /\ LastPicked \notin Range(dormant_sources)
           /\ Range(dormant_sources) = Range(last.pre_dormant) \ {LastPicked}

\* The last call was deactivate_source by name, and the active source that
\* name designated was an analysis target.
C6_NamedTarget ==
    /\ last.op = "deactivate"
    /\ NamedActive(last.pre_sources, last.id) # 0
    /\ analysis_target(last.pre_sources[NamedActive(last.pre_sources, last.id)])

C7_RoundTrip ==
    (/\ trip.stage = 2
     /\ model_bound
     /\ \/ ~analysis_target(trip.x)
        \/ (last.force /\ \A s \in trip.active0 : ~analysis_target(s))) =>
        /\ Range(sources) = trip.active0
        /\ Range(dormant_sources) = trip.dormant0

(***************************************************************************)
(* Properties of compute_source_pdf.                                       *)
(***************************************************************************)
Requested == n_events_for_pdf * config.pdf_sampling_multiplier

\* C8: n_batches = ceil(requested / batch_size) and n_events = n_batches *
\* batch_size for every batch size and requested count, exact multiples of
\* the batch size included; n_events is never below the requested count.
\* Stated here for the positive requested counts.
C8_BatchCount ==
    (pc # "idle" /\ Requested > 0) =>
        /\ n_batches = NBatchesCeil(Requested, config.pdf_sampling_batch_size)
        /\ n_events = n_batches * config.pdf_sampling_batch_size
        /\ n_events >= Requested

\* C9: in parallel mode, whatever the order in which the tasks finish, the
\* Source's three fields are written once, after the results of all
\* n_batches tasks have been merged, and hold the normalized element-wise
\* sum of the count arrays of all the tasks; until then they are untouched.
C9_ParallelMerge ==
    config.ipp_client =>
        /\ pc # "done" => source = prior
        /\ pc = "done" =>
            /\ batches_left = 0 /\ arrived = <<>>
            /\ mh = returned
            /\ source = Normalize(returned, n_events)

\* C9 witness: a parallel run of several batches has been stored, and its
\* tasks returned count arrays that differ from cell to cell.
C9_Witness ==
    /\ config.ipp_client /\ pc = "done"
    /\ n_batches >= 2
    /\ returned[1][1] > 0 /\ returned[2][1] > 0
    /\ source # prior

\* C10: when source.simulate raises in a batch, serial or parallel, the run
\* is abandoned and the Source keeps the pdf_histogram, pdf_errors and
\* fraction_in_range it had; no partly accumulated histogram is visible on
\* the Source while the batches run.
C10_NoPartialState ==
    pc \in {"sampling", "failed"} => source = prior

\* C10 witness: a run has failed after at least one batch had been
\* accumulated, on a Source that carried an earlier PDF.
C10_Witness ==
    /\ pc = "failed"
    /\ HistN(mh) > 0
    /\ prior = Computed
    /\ source = Computed

====
